---- MODULE Spec2Model ----
(***************************************************************************)
(* Model of src/mappings.py: discovery of *.db files, rebuild of the       *)
(* consolidated store central.db, ingestion of every source file's         *)
(* channel_members rows, the guild catalog and the cross-guild finder.     *)
(***************************************************************************)
EXTENDS Integers, Sequences, FiniteSets, TLC

\* ---------------------------------------------------------------- bounds
MaxRows == 2        \* rows per source file

\* ------------------------------------------------------ generic helpers
Range(s) == {s[i] : i \in 1..Len(s)}

PermSeqs(S) == {s \in [1..Cardinality(S) -> S] : \A x \in S : \E i \in 1..Cardinality(S) : s[i] = x}

SeqsUpTo(S, n) == UNION {[1..k -> S] : k \in 0..n}

\* str.endswith(suffix) on names written as character sequences
EndsWith(s, suffix) ==
    /\ Len(s) >= Len(suffix)
    /\ SubSeq(s, Len(s) - Len(suffix) + 1, Len(s)) = suffix

\* ------------------------------------------------------------ file tree
DotDb == <<".", "d", "b">>

RootDir == <<>>
SubDir  == <<"sub">>

central_db_path == [dir |-> RootDir, name |-> <<"c", "e", "n", "t", "r", "a", "l", ".", "d", "b">>]
FileA   == [dir |-> RootDir, name |-> <<"a", ".", "d", "b">>]
FileB   == [dir |-> SubDir,  name |-> <<"b", ".", "d", "b">>]
FileTxt == [dir |-> RootDir, name |-> <<"d", "b", ".", "t", "x", "t">>]

Paths == {central_db_path, FileA, FileB, FileTxt}

\* ------------------------------------------------------------- the rows
\* the SELECT list of line 54 and the column list of lines 27-34 and 62
SevenColumns == <<"userId", "displayName", "guildId", "guildName", "roles", "status", "platforms">>
EightColumns == SevenColumns \o <<"sourceDb">>

IndexOf(columns, name) == CHOOSE i \in 1..Len(columns) : columns[i] = name

\* guild identifiers are written as character sequences, as the inputs are
G1 == <<"g", "1">>
G2 == <<"g", "2">>
G3 == <<"g", "3">>
G9 == <<"g", "9">>

Row1 == <<"u1", "Alice",  G1, "GuildOne",    "r", "online", "web">>
Row2 == <<"u1", "Al",     G1, "GuildOneAlt", "r", "online", "web">>
Row3 == <<"u1", "Alice2", G2, "GuildTwo",    "r", "online", "web">>
Row4 == <<"u2", "Bob",    G2, "GuildTwo",    "r", "idle",   "web">>

PoolA == {Row1, Row2, Row3}
PoolB == {Row1, Row4}

\* what the operator may type at a prompt
RawInputs == {<<" ">> \o G1, G2 \o <<" ", " ">>, G3}

\* ----------------------------------------------------------- file states
\* kind: "absent"     no such file
\*       "sqlite"     an SQLite file; columns are those of its table
\*                    channel_members (<<>>: no such table), rows its rows
\*       "not_a_db"   not an SQLite file
\*       "unopenable" sqlite3.connect itself raises
\*       "other"      a file that is never opened
File(kind, columns, stored) == [kind |-> kind, columns |-> columns, rows |-> stored]

Absent == File("absent", <<>>, <<>>)

FailingFiles ==
    { File("sqlite", <<>>, <<>>),
      File("sqlite", <<"userId", "displayName">>, <<>>),
      File("not_a_db", <<>>, <<>>),
      File("unopenable", <<>>, <<>>) }

SourceContents(pool) ==
    {File("sqlite", SevenColumns, r) : r \in SeqsUpTo(pool, MaxRows)} \cup FailingFiles \cup {Absent}

\* a row left in central.db by some earlier run
StaleRow == <<"u9", "Old", G9, "GuildOld", "r", "online", "web", FileA>>

CentralContents == {Absent, File("not_a_db", <<>>, <<>>), File("sqlite", EightColumns, <<StaleRow>>)}

VARIABLES
    fs,                  \* the files: path -> File (committed, durable content)
    pc,                  \* position of the run
    sqlite_files,        \* main / populate_central_database: the discovered paths
    idx,                 \* populate_central_database: position of db_path in sqlite_files
    central_open,        \* a connection to central.db is open
    pending,             \* rows inserted on the central connection, not committed
    source_connection,   \* the variable source_connection: index of its file, 0 = unbound
    open_sources,        \* indices of the files whose connection is open
    rows,                \* populate_central_database: rows fetched from db_path
    guilds,              \* main: the list display_guilds returned
    guild_a, guild_b,    \* main: the two inputs
    results_a, results_b,            \* find_users_in_selected_guilds: fetched rows
    guild_a_users, guild_b_users,    \* find_users_in_selected_guilds: the two dicts
    out                  \* what this run printed, prompts included

vars == <<fs, pc, sqlite_files, idx, central_open, pending, source_connection,
          open_sources, rows, guilds, guild_a, guild_b, results_a, results_b,
          guild_a_users, guild_b_users, out>>

fileVars   == <<fs>>
ingestVars == <<idx, central_open, pending, source_connection, open_sources, rows>>
queryVars  == <<guilds, guild_a, guild_b, results_a, results_b, guild_a_users, guild_b_users>>

EmptyDict == [k \in {} |-> ""]

Init ==
    /\ fs \in {[p \in Paths |-> IF p = central_db_path THEN c
                               ELSE IF p = FileA THEN a
                               ELSE IF p = FileB THEN b
                               ELSE File("other", <<>>, <<>>)] :
                  c \in CentralContents, a \in SourceContents(PoolA), b \in SourceContents(PoolB)}
    /\ pc = "main"
    /\ sqlite_files = <<>>
    /\ idx = 0
    /\ central_open = FALSE
    /\ pending = <<>>
    /\ source_connection = 0
    /\ open_sources = {}
    /\ rows = <<>>
    /\ guilds = <<>>
    /\ guild_a = <<>>
    /\ guild_b = <<>>
    /\ results_a = <<>>
    /\ results_b = <<>>
    /\ guild_a_users = EmptyDict
    /\ guild_b_users = EmptyDict
    /\ out = <<>>

\* ------------------------------------------------------------ discovery
\* os.walk is top-down: the files of the root in listing order, then those
\* of the sub-directory; the listing order of a directory is arbitrary.
Listing(f, d) == {p \in Paths : p.dir = d /\ f[p].kind # "absent"}

IsDb(p) == EndsWith(p.name, DotDb)

search_sqlite_files(rootOrder, subOrder) == SelectSeq(rootOrder \o subOrder, IsDb)

\* main, lines 135-143
MainSearch ==
    /\ pc = "main"
    /\ \E rootOrder \in PermSeqs(Listing(fs, RootDir)), subOrder \in PermSeqs(Listing(fs, SubDir)) :
          LET found == search_sqlite_files(rootOrder, subOrder) IN
          /\ sqlite_files' = found
          /\ IF found = <<>>
                THEN /\ out' = out \o <<<<"Searching">>, <<"NoFiles">>>>
                     /\ pc' = "done"
                ELSE /\ out' = out \o <<<<"Searching">>, <<"Found", Len(found)>>>>
                     /\ pc' = "create"
    /\ UNCHANGED <<fileVars, ingestVars, queryVars>>

\* ---------------------------------------------------------- initializer
FreshStore == File("sqlite", EightColumns, <<>>)

KeepExisting(f, p) == f

\* os.path.exists / os.remove, lines 17-18
RemoveIfExists(f, p) == IF f[p].kind # "absent" THEN [f EXCEPT ![p] = Absent] ELSE f

\* sqlite3.connect creates the missing file; CREATE TABLE, commit, close
\* (lines 20-40).  On a file that is still there CREATE TABLE raises and
\* the file stays as it was.
ConnectAndCreateTable(f, p) == IF f[p].kind = "absent" THEN [f EXCEPT ![p] = FreshStore] ELSE f

create_central_database(f) == ConnectAndCreateTable(RemoveIfExists(f, central_db_path), central_db_path)

\* main, line 146
MainCreate ==
    /\ pc = "create"
    /\ fs' = create_central_database(fs)
    /\ pc' = "populate"
    /\ UNCHANGED <<sqlite_files, ingestVars, queryVars, out>>

\* ------------------------------------------------------------------ SQL
\* a SELECT of the named columns raises unless the file is a database whose
\* table channel_members has them all
CanSelect(file, columns) ==
    /\ file.kind = "sqlite"
    /\ \A j \in 1..Len(columns) : columns[j] \in Range(file.columns)

Select(file, columns) ==
    [i \in 1..Len(file.rows) |->
        [j \in 1..Len(columns) |-> file.rows[i][IndexOf(file.columns, columns[j])]]]

SelectWhere(file, columns, column, val) ==
    Select([file EXCEPT !.rows = SelectSeq(@, LAMBDA r : r[IndexOf(file.columns, column)] = val)], columns)

RECURSIVE DistinctScan(_)
\* DISTINCT: a row is kept unless an equal one was kept before it
DistinctScan(s) ==
    IF s = <<>> THEN <<>>
    ELSE LET kept == DistinctScan(SubSeq(s, 1, Len(s) - 1))
             last == s[Len(s)]
         IN  IF last \in Range(kept) THEN kept ELSE Append(kept, last)

\* without ORDER BY the rows of a result come in an order the store chooses
FetchOrders(result) ==
    {[i \in 1..Len(result) |-> result[f[i]]] : f \in PermSeqs(1..Len(result))}

\* INSERT INTO channel_members (names) VALUES (?, ...): one stored row
InsertRow(columns, names, values) == [k \in 1..Len(columns) |-> values[IndexOf(names, columns[k])]]

\* ------------------------------------------------------------ ingestion
db_path == sqlite_files[idx]

\* the for statement of line 48: the next file, or the end of the loop
ForNext(i) == IF i <= Len(sqlite_files) THEN "connect" ELSE "commit"

\* lines 45-46
PopulateBegin ==
    /\ pc = "populate"
    /\ central_open' = TRUE
    /\ idx' = 1
    /\ pc' = ForNext(1)
    /\ UNCHANGED <<fs, sqlite_files, pending, source_connection, open_sources, rows, queryVars, out>>

\* line 50, the call: sqlite3.connect opens a connection or raises; it does
\* not read the file, so a file that is no database still connects
SourceConnect ==
    /\ pc = "connect"
    /\ IF fs[db_path].kind = "unopenable"
          THEN /\ pc' = "except"
               /\ UNCHANGED open_sources
          ELSE /\ pc' = "bind"
               /\ open_sources' = open_sources \cup {idx}
    /\ UNCHANGED <<fs, sqlite_files, idx, central_open, pending, source_connection, rows, queryVars, out>>

\* the connection that a rebinding or the end of the frame leaves without a
\* reference is closed by its deallocation
Release(open, conn) == open \ {conn}

\* line 50, the assignment to source_connection
SourceBind ==
    /\ pc = "bind"
    /\ source_connection' = idx
    /\ open_sources' = IF source_connection \in {0, idx} THEN open_sources
                       ELSE Release(open_sources, source_connection)
    /\ pc' = "execute"
    /\ UNCHANGED <<fs, sqlite_files, idx, central_open, pending, rows, queryVars, out>>

ReadUncommitted(f, p) == IF p = central_db_path THEN [f[p] EXCEPT !.rows = @ \o pending] ELSE f[p]

\* what a connection to p reads: the committed content of the file; the
\* rows of the open transaction on central.db are not in it
ReadFile(f, p) == f[p]

\* lines 51-55: cursor, execute, fetchall
SourceExecute ==
    /\ pc = "execute"
    /\ IF CanSelect(ReadFile(fs, db_path), SevenColumns)
          THEN /\ rows' = Select(ReadFile(fs, db_path), SevenColumns)
               /\ pc' = "insert"
          ELSE /\ pc' = "except"
               /\ UNCHANGED rows
    /\ UNCHANGED <<fs, sqlite_files, idx, central_open, pending, source_connection, open_sources, queryVars, out>>

rows_with_first_source(rs, path) ==
    [i \in 1..Len(rs) |-> <<rs[i][1], rs[i][2], rs[i][3], rs[i][4], rs[i][5], rs[i][6], rs[i][7], sqlite_files[1]>>]

\* line 58
rows_with_source(rs, path) ==
    [i \in 1..Len(rs) |-> <<rs[i][1], rs[i][2], rs[i][3], rs[i][4], rs[i][5], rs[i][6], rs[i][7], path>>]

\* lines 61-64: executemany, with the column list of line 62
Inserted(file, tagged) == [i \in 1..Len(tagged) |-> InsertRow(file.columns, EightColumns, tagged[i])]

\* connection.commit(): the rows of the transaction become durable
Commit(f, p, tx) == [f EXCEPT ![p].rows = @ \o tx]

SourceInsertAndCommit ==
    /\ pc = "insert"
    /\ fs' = Commit(fs, central_db_path, Inserted(fs[central_db_path], rows_with_source(rows, db_path)))
    /\ pc' = "close"
    /\ UNCHANGED <<sqlite_files, idx, central_open, pending, source_connection, open_sources, rows, queryVars, out>>

\* lines 58-64: the insert goes to the transaction of the central connection
SourceInsert ==
    /\ pc = "insert"
    /\ pending' = pending \o Inserted(fs[central_db_path], rows_with_source(rows, db_path))
    /\ pc' = "close"
    /\ UNCHANGED <<fs, sqlite_files, idx, central_open, source_connection, open_sources, rows, queryVars, out>>

\* line 66, then the next iteration
SourceClose ==
    /\ pc = "close"
    /\ open_sources' = open_sources \ {source_connection}
    /\ idx' = idx + 1
    /\ pc' = ForNext(idx + 1)
    /\ UNCHANGED <<fs, sqlite_files, central_open, pending, source_connection, rows, queryVars, out>>

SourceExceptAbort ==
    /\ pc = "except"
    /\ out' = Append(out, <<"ErrorAccessing", db_path>>)
    /\ pc' = "commit"
    /\ UNCHANGED <<fs, sqlite_files, idx, central_open, pending, source_connection, open_sources, rows, queryVars>>

\* lines 67-68, then the next iteration
SourceExcept ==
    /\ pc = "except"
    /\ out' = Append(out, <<"ErrorAccessing", db_path>>)
    /\ idx' = idx + 1
    /\ pc' = ForNext(idx + 1)
    /\ UNCHANGED <<fs, sqlite_files, central_open, pending, source_connection, open_sources, rows, queryVars>>

\* line 70
PopulateCommit ==
    /\ pc = "commit"
    /\ fs' = Commit(fs, central_db_path, pending)
    /\ pending' = <<>>
    /\ pc' = "return"
    /\ UNCHANGED <<sqlite_files, idx, central_open, source_connection, open_sources, rows, queryVars, out>>

\* line 71 and the return, which drops the locals of the frame
PopulateReturn ==
    /\ pc = "return"
    /\ central_open' = FALSE
    /\ open_sources' = IF source_connection = 0 THEN open_sources
                       ELSE Release(open_sources, source_connection)
    /\ source_connection' = 0
    /\ rows' = <<>>
    /\ idx' = 0
    /\ pc' = "display"
    /\ UNCHANGED <<fs, sqlite_files, pending, queryVars, out>>

\* the process dies during ingestion: the open transaction is rolled back,
\* every connection is gone
Crash ==
    /\ pc \in {"connect", "bind", "execute", "insert", "close", "except", "commit"}
    /\ pending' = <<>>
    /\ central_open' = FALSE
    /\ open_sources' = {}
    /\ source_connection' = 0
    /\ rows' = <<>>
    /\ idx' = 0
    /\ pc' = "crashed"
    /\ UNCHANGED <<fs, sqlite_files, queryVars, out>>

\* --------------------------------------------------------------- catalog
GuildQueryAll(file) == Select(file, <<"guildId", "guildName">>)

\* line 79: SELECT DISTINCT guildId, guildName FROM channel_members
GuildQuery(file) == DistinctScan(Select(file, <<"guildId", "guildName">>))

AlwaysGuilds(g) == FALSE

\* line 154: not guilds
NoGuilds(g) == g = <<>>

\* lines 73-93, and the test of lines 154-156
MainDisplay ==
    /\ pc = "display"
    /\ \/ /\ CanSelect(fs[central_db_path], <<"guildId", "guildName">>)
          /\ \E results \in FetchOrders(GuildQuery(fs[central_db_path])) :
               /\ guilds' = results
               /\ IF NoGuilds(results)
                     THEN /\ out' = out \o <<<<"AvailableGuilds">>, <<"NoGuilds">>>>
                          /\ pc' = "done"
                     ELSE /\ out' = out \o <<<<"AvailableGuilds">>>>
                                        \o [i \in 1..Len(results) |-> <<"Guild", results[i][2], results[i][1]>>]
                          /\ pc' = "prompt_a"
       \/ \* sqlite3.Error, lines 91-93
          /\ guilds' = <<>>
          /\ out' = out \o <<<<"ErrorDisplaying">>, <<"NoGuilds">>>>
          /\ pc' = "done"
    /\ UNCHANGED <<fs, sqlite_files, ingestVars, guild_a, guild_b, results_a, results_b,
                   guild_a_users, guild_b_users>>

\* ---------------------------------------------------------------- finder
RECURSIVE LStrip(_)
LStrip(s) == IF s # <<>> /\ Head(s) = " " THEN LStrip(Tail(s)) ELSE s

RECURSIVE RStrip(_)
RStrip(s) == IF s # <<>> /\ s[Len(s)] = " " THEN RStrip(SubSeq(s, 1, Len(s) - 1)) ELSE s

\* str.strip()
Strip(s) == RStrip(LStrip(s))

\* line 159
MainPromptA ==
    /\ pc = "prompt_a"
    /\ \E typed \in RawInputs : guild_a' = Strip(typed)
    /\ out' = Append(out, <<"PromptA">>)
    /\ pc' = "prompt_b"
    /\ UNCHANGED <<fs, sqlite_files, ingestVars, guilds, guild_b, results_a, results_b,
                   guild_a_users, guild_b_users>>

\* line 160
MainPromptB ==
    /\ pc = "prompt_b"
    /\ \E typed \in RawInputs : guild_b' = Strip(typed)
    /\ out' = Append(out, <<"PromptB">>)
    /\ pc' = "find"
    /\ UNCHANGED <<fs, sqlite_files, ingestVars, guilds, guild_a, results_a, results_b,
                   guild_a_users, guild_b_users>>

UserQueryAnyGuild(file, guild) == DistinctScan(Select(file, <<"userId", "displayName">>))

\* lines 101-111: SELECT DISTINCT userId, displayName ... WHERE guildId = ?
UserQuery(file, guild) == DistinctScan(SelectWhere(file, <<"userId", "displayName">>, "guildId", guild))

RECURSIVE FirstDictOf(_)
FirstDictOf(fetched) ==
    IF fetched = <<>> THEN EmptyDict
    ELSE LET d    == FirstDictOf(SubSeq(fetched, 1, Len(fetched) - 1))
             last == fetched[Len(fetched)]
         IN  [k \in DOMAIN d \cup {last[1]} |-> IF k \in DOMAIN d THEN d[k] ELSE last[2]]

RECURSIVE DictOf(_)
\* {row[0]: row[1] for row in fetched}: a later row replaces an earlier one
DictOf(fetched) ==
    IF fetched = <<>> THEN EmptyDict
    ELSE LET d    == DictOf(SubSeq(fetched, 1, Len(fetched) - 1))
             last == fetched[Len(fetched)]
         IN  [k \in DOMAIN d \cup {last[1]} |-> IF k = last[1] THEN last[2] ELSE d[k]]

\* line 119
CommonUsers(da, db) == DOMAIN da \cap DOMAIN db

\* lines 95-132
MainFind ==
    /\ pc = "find"
    /\ \/ /\ CanSelect(fs[central_db_path], <<"userId", "displayName", "guildId">>)
          /\ \E ra \in FetchOrders(UserQuery(fs[central_db_path], guild_a)),
                rb \in FetchOrders(UserQuery(fs[central_db_path], guild_b)) :
               LET da == DictOf(ra)
                   db == DictOf(rb)
                   common_users == CommonUsers(da, db)
               IN  /\ results_a' = ra
                   /\ results_b' = rb
                   /\ guild_a_users' = da
                   /\ guild_b_users' = db
                   /\ IF common_users # {}
                         THEN \E order \in PermSeqs(common_users) :
                                 out' = out \o <<<<"UsersInBoth", guild_a, guild_b>>>>
                                            \o [i \in 1..Len(order) |->
                                                  <<"User", order[i], da[order[i]], db[order[i]]>>]
                         ELSE out' = Append(out, <<"NoUsers", guild_a, guild_b>>)
       \/ \* sqlite3.Error, lines 131-132
          /\ out' = Append(out, <<"ErrorFinding">>)
          /\ UNCHANGED <<results_a, results_b, guild_a_users, guild_b_users>>
    /\ pc' = "done"
    /\ UNCHANGED <<fs, sqlite_files, ingestVars, guilds, guild_a, guild_b>>

\* the script is run again in the same directory (lines 165-166)
Rerun ==
    /\ pc \in {"done", "crashed"}
    /\ pc' = "main"
    /\ sqlite_files' = <<>>
    /\ guilds' = <<>>
    /\ guild_a' = <<>>
    /\ guild_b' = <<>>
    /\ results_a' = <<>>
    /\ results_b' = <<>>
    /\ guild_a_users' = EmptyDict
    /\ guild_b_users' = EmptyDict
    /\ out' = <<>>
    /\ UNCHANGED <<fs, ingestVars>>

Next ==
    \/ MainSearch
    \/ MainCreate
    \/ PopulateBegin
    \/ SourceConnect
    \/ SourceBind
    \/ SourceExecute
    \/ SourceInsert
    \/ SourceClose
    \/ SourceExcept
    \/ PopulateCommit
    \/ PopulateReturn
    \/ Crash
    \/ MainDisplay
    \/ MainPromptA
    \/ MainPromptB
    \/ MainFind
    \/ Rerun

Spec == Init /\ [][Next]_vars

\* =============================================================== claims
Store == fs[central_db_path].rows

Count(s, x) == Cardinality({i \in 1..Len(s) : s[i] = x})

Col(name) == IndexOf(EightColumns, name)

\* populate_central_database has returned in this run
Ingested == pc \in {"display", "prompt_a", "prompt_b", "find", "done"} /\ sqlite_files # <<>>

\* the rows ingestion finds in a discovered file: the store itself, when it
\* is among them, is the empty table the Initializer has just made
SourceRows(p) == IF p = central_db_path THEN <<>> ELSE fs[p].rows

Readable(p) == CanSelect(fs[p], SevenColumns)

RECURSIVE SumRows(_)
SumRows(n) == IF n = 0 THEN 0 ELSE SumRows(n - 1) + Len(SourceRows(sqlite_files[n]))

Printed(kinds) == {k \in 1..Len(out) : out[k][1] \in kinds}

\* C1: when no discovered file fails to read, after ingestion the store
\* holds exactly the sum of the files' row counts: each row of each file as
\* often as the file has it, tagged with the path of that file, and no
\* other row.
C1_AllRowsIngested ==
    (Ingested /\ \A i \in 1..Len(sqlite_files) : Readable(sqlite_files[i])) =>
        /\ Len(Store) = SumRows(Len(sqlite_files))
        /\ \A i \in 1..Len(sqlite_files) : \A r \in Range(SourceRows(sqlite_files[i])) :
              Count(Store, r \o <<sqlite_files[i]>>) = Count(SourceRows(sqlite_files[i]), r)
        /\ \A t \in Range(Store) : \E i \in 1..Len(sqlite_files) :
              /\ t[Col("sourceDb")] = sqlite_files[i]
              /\ SubSeq(t, 1, 7) \in Range(SourceRows(sqlite_files[i]))

C1_Witness ==
    /\ pc = "display"
    /\ \A i \in 1..Len(sqlite_files) : Readable(sqlite_files[i])
    /\ \E t \in Range(Store) : Count(Store, t) >= 2
    /\ \E t, u \in Range(Store) : t[Col("sourceDb")] # u[Col("sourceDb")]

\* C2: whichever discovered files fail to open or read, after ingestion
\* each failing file has been reported and has no row in the store, and
\* every row of every other file is in the store as often as the file has
\* it, whether the file came before or after a failing one.
C2_FailureIsolation ==
    Ingested =>
        \A i \in 1..Len(sqlite_files) :
            LET p == sqlite_files[i] IN
            IF Readable(p)
               THEN \A r \in Range(SourceRows(p)) : Count(Store, r \o <<p>>) = Count(SourceRows(p), r)
               ELSE /\ \A t \in Range(Store) : t[Col("sourceDb")] # p
                    /\ \E k \in Printed({"ErrorAccessing"}) : out[k][2] = p

C2_Witness ==
    /\ pc = "display"
    /\ \E i, j \in 1..Len(sqlite_files) :
          /\ i < j
          /\ ~Readable(sqlite_files[i])
          /\ Readable(sqlite_files[j])
          /\ SourceRows(sqlite_files[j]) # <<>>
          /\ \E t \in Range(Store) : t[Col("sourceDb")] = sqlite_files[j]

\* find_users_in_selected_guilds has printed its report (no sqlite3.Error)
FinderReported == pc = "done" /\ Printed({"UsersInBoth", "NoUsers"}) # {}

UsersOf(guild) == {r[Col("userId")] : r \in {x \in Range(Store) : x[Col("guildId")] = guild}}

ReportedUsers == {out[k][2] : k \in Printed({"User"})}

\* C3: the finder reports exactly the users that have a row in guild A and
\* a row in guild B, each once; it prints the no-users message exactly when
\* there is none; for A = B it reports every user of that guild.
C3_Intersection ==
    FinderReported =>
        LET common == UsersOf(guild_a) \cap UsersOf(guild_b) IN
        /\ ReportedUsers = common
        /\ Cardinality(Printed({"User"})) = Cardinality(common)
        /\ (Printed({"NoUsers"}) # {}) <=> (common = {})
        /\ (guild_a = guild_b) => (ReportedUsers = UsersOf(guild_a))

C3_Witness ==
    /\ FinderReported
    /\ guild_a # guild_b
    /\ ReportedUsers # {}
    /\ UsersOf(guild_b) # ReportedUsers

PromptedOrFinding ==
    \/ pc \in {"prompt_a", "prompt_b", "find"}
    \/ Printed({"PromptA", "PromptB", "UsersInBoth", "User", "NoUsers", "ErrorFinding"}) # {}

\* C4: a prompt or the finder is reached only when discovery found a file
\* and the catalog returned a pair; a run with no file or with no pair ends
\* on its message, with no prompt and no finder.
C4_PromptsOnlyWithGuilds ==
    /\ PromptedOrFinding => (sqlite_files # <<>> /\ guilds # <<>>)
    /\ (pc = "done" /\ (sqlite_files = <<>> \/ guilds = <<>>)) =>
          /\ out[Len(out)][1] \in {"NoFiles", "NoGuilds"}
          /\ ~PromptedOrFinding

C4_Witness ==
    /\ pc = "done"
    /\ sqlite_files # <<>>
    /\ guilds = <<>>
    /\ Printed({"AvailableGuilds"}) # {}
    /\ out[Len(out)][1] = "NoGuilds"

\* C5: whatever central.db was (absent, not a database, with rows), after
\* create_central_database it is the eight-column table with no row, the
\* other files are as they were, and a second call changes nothing.
C5_IdempotentWipe ==
    /\ pc = "populate" => fs[central_db_path] = FreshStore
    /\ create_central_database(fs)[central_db_path] = FreshStore
    /\ \A p \in Paths \ {central_db_path} : create_central_database(fs)[p] = fs[p]
    /\ create_central_database(create_central_database(fs)) = create_central_database(fs)

C5_Witness ==
    /\ pc = "populate"
    /\ central_db_path \in Range(sqlite_files)
    /\ fs[central_db_path].columns = EightColumns
    /\ fs[central_db_path].rows = <<>>

GuildPairs == {<<r[Col("guildId")], r[Col("guildName")]>> : r \in Range(Store)}

Permuted(f) == [fs[central_db_path] EXCEPT !.rows = [i \in 1..Len(Store) |-> Store[f[i]]]]

\* C6: display_guilds returns every (guildId, guildName) pair of the store
\* and each once, so one guildId under two names gives two pairs; the number
\* of pairs is the same for every order of the store's rows.
C6_DistinctPairs ==
    /\ Printed({"AvailableGuilds"}) # {} =>
          /\ Range(guilds) = GuildPairs
          /\ Len(guilds) = Cardinality(GuildPairs)
    /\ pc = "prompt_a" =>
          \A f \in PermSeqs(1..Len(Store)) : Len(GuildQuery(Permuted(f))) = Len(guilds)

C6_Witness ==
    /\ pc = "prompt_a"
    /\ \E g, h \in Range(guilds) : g[1] = h[1] /\ g[2] # h[2]
    /\ Len(Store) > Len(guilds)

\* C7: at most one source connection is open at any point, none is open
\* when the next file's connection is about to be opened, and none when
\* populate_central_database has returned.
C7_OneSourceConnection ==
    /\ Cardinality(open_sources) <= 1
    /\ pc = "connect" => open_sources = {}
    /\ pc = "display" => open_sources = {}

IngestionStates == {"populate", "connect", "bind", "execute", "insert", "close", "except", "commit"}

\* C8: from the Initializer to the commit of line 70 the durable content of
\* the store is the empty table, so a crash in between leaves no row; the
\* only step of ingestion that changes it is that commit, after the last file.
C8_SingleCommit ==
    [][ /\ pc' \in IngestionStates => fs'[central_db_path] = FreshStore
        /\ pc' = "crashed" => fs'[central_db_path].rows = <<>>
        /\ (pc \in IngestionStates /\ fs' # fs) =>
              (pc = "commit" /\ idx > Len(sqlite_files) /\ pc' = "return") ]_vars

C8_Witness ==
    /\ pc = "connect"
    /\ idx = 2
    /\ pending # <<>>
    /\ Store = <<>>

LastName(fetched, user) ==
    LET last == CHOOSE k \in 1..Len(fetched) :
                    /\ fetched[k][1] = user
                    /\ \A j \in (k + 1)..Len(fetched) : fetched[j][1] # user
    IN  fetched[last][2]

HasRow(user, guild, name) ==
    \E r \in Range(Store) :
        r[Col("userId")] = user /\ r[Col("guildId")] = guild /\ r[Col("displayName")] = name

\* C9: each reported user has one report; its name for guild A is that of
\* the last fetched guild-A row of the user, its name for guild B that of
\* the last fetched guild-B row, and each is a name of the user in that guild.
C9_LastNameWins ==
    FinderReported =>
        \A k \in Printed({"User"}) :
            /\ Cardinality({j \in Printed({"User"}) : out[j][2] = out[k][2]}) = 1
            /\ out[k][3] = LastName(results_a, out[k][2])
            /\ out[k][4] = LastName(results_b, out[k][2])
            /\ HasRow(out[k][2], guild_a, out[k][3])
            /\ HasRow(out[k][2], guild_b, out[k][4])

C9_Witness ==
    /\ FinderReported
    /\ \E k \in Printed({"User"}) : \E i, j \in 1..Len(results_a) :
          /\ i < j
          /\ results_a[i][1] = out[k][2]
          /\ results_a[j][1] = out[k][2]
          /\ results_a[i][2] # results_a[j][2]

\* C10: a central.db that exists when the run starts is among the discovered
\* files and counted in "Found N"; after ingestion no row of the store is
\* tagged with the store's own path, and every row comes from another
\* discovered file of this run, so nothing of the earlier store is kept.
C10_StoreNotItsOwnSource ==
    /\ pc = "create" =>
          /\ fs[central_db_path].kind # "absent" => central_db_path \in Range(sqlite_files)
          /\ \E k \in Printed({"Found"}) : out[k][2] = Len(sqlite_files)
    /\ Ingested =>
          \A t \in Range(Store) :
              /\ t[Col("sourceDb")] # central_db_path
              /\ t # StaleRow
              /\ \E i \in 1..Len(sqlite_files) :
                    /\ sqlite_files[i] # central_db_path
                    /\ t[Col("sourceDb")] = sqlite_files[i]
                    /\ SubSeq(t, 1, 7) \in Range(fs[sqlite_files[i]].rows)

C10_Witness ==
    /\ pc = "display"
    /\ Len(sqlite_files) >= 2
    /\ sqlite_files[2] = central_db_path
    /\ Readable(sqlite_files[1])
    /\ \E t \in Range(Store) : t[Col("sourceDb")] = sqlite_files[1]

====
